---- MODULE Spec2Model ----
(***************************************************************************)
(* Model of rt_tuto (src/src/rt_tuto.cpp, src/src/rt_utils.h): the command *)
(* line handling of main, the three-step real-time configuration, the      *)
(* periodic measurement loop and the final clean-up.                       *)
(*                                                                         *)
(* The program is single-threaded; pc is the position of main.  The        *)
(* operating system is the environment: each system call of the            *)
(* configuration may succeed or fail, and the monotonic clock may wake the *)
(* loop on time, late, or early (interrupted wait).                        *)
(***************************************************************************)
EXTENDS Integers, Sequences, FiniteSets, TLC

VARIABLES
    pc,           \* position of main
    argv,         \* the arguments after the program name
    ctx,          \* the process' real-time attributes kept by the kernel
    trace,        \* the system calls issued so far, with their outcome
    out,          \* the messages printed so far (tags)
    cfgResult,    \* what configure_realtime returned: "pending", "true", "false"
    exitStatus,   \* -1 while running, else the value returned by main
    n,            \* the iteration count of the run (NUM_ITERATIONS)
    i,            \* loop counter of run_periodic_task
    next_period,  \* the scheduled wake instant (struct timespec)
    now,          \* the last instant read after a wake (struct timespec)
    latencies,    \* std::vector<uint64_t> latencies
    clock,        \* CLOCK_MONOTONIC, as a struct timespec
    t0,           \* history: the first clock reading of run_periodic_task
    schedLog,     \* history: the instant handed to each clock_nanosleep
    nowLog,       \* history: the instant read after each wake
    params,       \* the configured period and the arguments of the helpers
    report        \* what the statistics and histogram stage has computed

vars == <<pc, argv, ctx, trace, out, cfgResult, exitStatus, n, i, next_period,
          now, latencies, clock, t0, schedLog, nowLog, params, report>>

runVars == <<n, i, next_period, now, latencies, clock, t0, schedLog, nowLog,
             params, report>>

-----------------------------------------------------------------------------
(* Program constants *)

PERIOD_US == 1000
RT_PRIORITY == 80
RT_CPU == 2
NSEC_PER_SEC == 1000000000
PRIO_MIN == 1
PRIO_MAX == 99
NUM_ITERATIONS == 1000
NUM_BINS == 15

(* Bounds of the model *)

MaxArgs == 2
MaxIter == 3

-----------------------------------------------------------------------------
(* Time: struct timespec and the helpers of rt_utils.h *)

Timespec(s, ns) == [tv_sec |-> s, tv_nsec |-> ns]

\* static_cast<uint64_t>(tv_sec) * 1000000000ULL + static_cast<uint64_t>(tv_nsec).
\* All instants of the model have 0 <= tv_sec <= 2 and stay far below 2^64,
\* so the unsigned 64-bit sum never wraps and is the plain integer.
TotalNs(ts) == ts.tv_sec * NSEC_PER_SEC + ts.tv_nsec

\* Faulty variant: the subtraction without the end > start guard.
timespec_diff_ns_unguarded(start, end) == TotalNs(end) - TotalNs(start)

timespec_diff_ns(start, end) ==
    LET start_ns == TotalNs(start)
        end_ns   == TotalNs(end)
    IN  IF end_ns > start_ns THEN end_ns - start_ns ELSE 0

\* The clock hands out normalised instants.
FromNs(t) == Timespec(t \div NSEC_PER_SEC, t % NSEC_PER_SEC)

-----------------------------------------------------------------------------
(* The real-time attributes of the process and the system calls on them *)

AllCpus == {0, 1, 2, 3}

DefaultCtx ==
    [locked |-> FALSE, policy |-> "SCHED_OTHER", priority |-> 0,
     affinity |-> AllCpus]

\* Effect of a successful call; a failed call leaves the attributes alone.
mlockall(c) == [c EXCEPT !.locked = TRUE]

munlockall(c) == [c EXCEPT !.locked = FALSE]

sched_setscheduler(c, pol, prio) == [c EXCEPT !.policy = pol, !.priority = prio]

pthread_setaffinity_np(c, cpus) == [c EXCEPT !.affinity = cpus]

Call(name, ok) == [call |-> name, ok |-> ok]

Called(name) == \E k \in 1..Len(trace) : trace[k].call = name

CountCalls(name) == Cardinality({k \in 1..Len(trace) : trace[k].call = name})

-----------------------------------------------------------------------------
(* main: the argument loop *)

HelpFlags == {"--help", "-h"}

ArgTokens == HelpFlags \cup {"--bogus"}

ArgLists == UNION {[1..len -> ArgTokens] : len \in 0..MaxArgs}

\* Faulty variant: a help flag anywhere wins over an unknown option.
ParseFrom_AnyHelp(args, k) ==
    IF \E j \in k..Len(args) : args[j] \in HelpFlags THEN "help"
    ELSE IF k > Len(args) THEN "run" ELSE "unknown"

\* for (int i = 1; i < argc; ++i): both branches of the body return, so the
\* loop decides on the argument at index i and never reaches index i + 1.
ParseFrom(args, k) ==
    IF k > Len(args) THEN "run"
    ELSE IF args[k] \in HelpFlags THEN "help"
    ELSE "unknown"

\* Faulty variant: after the usage text the program goes on to configure.
ParseArgs_GoesOn ==
    /\ pc = "parse"
    /\ LET verdict == ParseFrom(argv, 1) IN
         /\ out' = IF verdict = "help" THEN Append(out, "usage")
                   ELSE IF verdict = "unknown"
                        THEN out \o <<"unknown_option", "usage">>
                        ELSE Append(out, "banner")
         /\ exitStatus' = exitStatus
         /\ pc' = "mlock"
    /\ UNCHANGED <<argv, ctx, trace, cfgResult>>
    /\ UNCHANGED runVars

ParseArgs ==
    /\ pc = "parse"
    /\ LET verdict == ParseFrom(argv, 1) IN
         CASE verdict = "help" ->
                /\ out' = Append(out, "usage")
                /\ exitStatus' = 0
                /\ pc' = "exit"
           [] verdict = "unknown" ->
                /\ out' = out \o <<"unknown_option", "usage">>
                /\ exitStatus' = 1
                /\ pc' = "exit"
           [] OTHER ->
                /\ out' = Append(out, "banner")
                /\ exitStatus' = exitStatus
                /\ pc' = "mlock"
    /\ UNCHANGED <<argv, ctx, trace, cfgResult>>
    /\ UNCHANGED runVars

-----------------------------------------------------------------------------
(* configure_realtime *)

\* Faulty variant: a failed lock is reported but step 2 follows.
MlockAll_ContinuesOnFailure ==
    /\ pc = "mlock"
    /\ \E ok \in BOOLEAN :
         /\ trace' = Append(trace, Call("mlockall", ok))
         /\ ctx' = IF ok THEN mlockall(ctx) ELSE ctx
         /\ out' = IF ok THEN out ELSE Append(out, "err_mlockall")
         /\ cfgResult' = cfgResult
         /\ pc' = "sched"
    /\ UNCHANGED <<argv, exitStatus>>
    /\ UNCHANGED runVars

\* Step 1: mlockall(MCL_CURRENT | MCL_FUTURE); failure returns false.
MlockAll ==
    /\ pc = "mlock"
    /\ \E ok \in BOOLEAN :
         /\ trace' = Append(trace, Call("mlockall", ok))
         /\ IF ok
            THEN /\ ctx' = mlockall(ctx)
                 /\ out' = out
                 /\ cfgResult' = cfgResult
                 /\ pc' = "sched"
            ELSE /\ ctx' = ctx
                 /\ out' = Append(out, "err_mlockall")
                 /\ cfgResult' = "false"
                 /\ pc' = "cfg_returned"
    /\ UNCHANGED <<argv, exitStatus>>
    /\ UNCHANGED runVars

\* Faulty variant: the failure path forgets munlockall().
SchedSetFifo_NoUnlock ==
    /\ pc = "sched"
    /\ \E ok \in BOOLEAN :
         IF ok
         THEN /\ trace' = Append(trace, Call("sched_setscheduler_FIFO", TRUE))
              /\ ctx' = sched_setscheduler(ctx, "SCHED_FIFO", RT_PRIORITY)
              /\ out' = out
              /\ cfgResult' = cfgResult
              /\ pc' = "affinity"
         ELSE /\ trace' = Append(trace, Call("sched_setscheduler_FIFO", FALSE))
              /\ ctx' = ctx
              /\ out' = Append(out, "err_sched_setscheduler")
              /\ cfgResult' = "false"
              /\ pc' = "cfg_returned"
    /\ UNCHANGED <<argv, exitStatus>>
    /\ UNCHANGED runVars

\* Step 2: sched_setscheduler(0, SCHED_FIFO, {RT_PRIORITY}); failure unlocks
\* the memory and returns false.
SchedSetFifo ==
    /\ pc = "sched"
    /\ \E ok \in BOOLEAN :
         IF ok
         THEN /\ trace' = Append(trace, Call("sched_setscheduler_FIFO", TRUE))
              /\ ctx' = sched_setscheduler(ctx, "SCHED_FIFO", RT_PRIORITY)
              /\ out' = out
              /\ cfgResult' = cfgResult
              /\ pc' = "affinity"
         ELSE /\ trace' = trace \o <<Call("sched_setscheduler_FIFO", FALSE),
                                     Call("munlockall", TRUE)>>
              /\ ctx' = munlockall(ctx)
              /\ out' = Append(out, "err_sched_setscheduler")
              /\ cfgResult' = "false"
              /\ pc' = "cfg_returned"
    /\ UNCHANGED <<argv, exitStatus>>
    /\ UNCHANGED runVars

\* Faulty variant: a failed pinning makes configure_realtime return false.
SetAffinity_FatalOnFailure ==
    /\ pc = "affinity"
    /\ \E ok \in BOOLEAN :
         /\ trace' = Append(trace, Call("pthread_setaffinity_np", ok))
         /\ ctx' = IF ok THEN pthread_setaffinity_np(ctx, {RT_CPU}) ELSE ctx
         /\ out' = Append(out, IF ok THEN "ok_affinity" ELSE "warn_affinity")
         /\ cfgResult' = IF ok THEN "true" ELSE "false"
    /\ pc' = "cfg_returned"
    /\ UNCHANGED <<argv, exitStatus>>
    /\ UNCHANGED runVars

\* Step 3: pthread_setaffinity_np on {RT_CPU}; failure only warns.
SetAffinity ==
    /\ pc = "affinity"
    /\ \E ok \in BOOLEAN :
         /\ trace' = Append(trace, Call("pthread_setaffinity_np", ok))
         /\ ctx' = IF ok THEN pthread_setaffinity_np(ctx, {RT_CPU}) ELSE ctx
         /\ out' = Append(out, IF ok THEN "ok_affinity" ELSE "warn_affinity")
    /\ cfgResult' = "true"
    /\ pc' = "cfg_returned"
    /\ UNCHANGED <<argv, exitStatus>>
    /\ UNCHANGED runVars

\* Faulty variant: main ignores the result of configure_realtime.
ConfigReturned_RunsAnyway ==
    /\ pc = "cfg_returned"
    /\ pc' = "run_init"
    /\ UNCHANGED <<out, exitStatus, argv, ctx, trace, cfgResult>>
    /\ UNCHANGED runVars

\* main: if (!configure_realtime()) { ...; return 1; }
ConfigReturned ==
    /\ pc = "cfg_returned"
    /\ IF cfgResult = "false"
       THEN /\ out' = Append(out, "config_failed")
            /\ exitStatus' = 1
            /\ pc' = "exit"
       ELSE /\ out' = out
            /\ exitStatus' = exitStatus
            /\ pc' = "run_init"
    /\ UNCHANGED <<argv, ctx, trace, cfgResult>>
    /\ UNCHANGED runVars

-----------------------------------------------------------------------------
(* rt_utils.h: statistics and histogram *)

\* The period of the loop, the bin count handed to print_histogram, and the
\* percentile and the vector handed to calculate_percentile.
DefaultParams ==
    [period_us |-> PERIOD_US, num_bins |-> NUM_BINS, percentile |-> 0,
     samples |-> <<>>]

Range(s) == {s[k] : k \in 1..Len(s)}

\* *std::min_element(begin, end), *std::max_element(begin, end)
MinOf(s) == CHOOSE x \in Range(s) : \A y \in Range(s) : x <= y

MaxOf(s) == CHOOSE x \in Range(s) : \A y \in Range(s) : x >= y

\* uint64_t sum = 0; for (lat : latencies) sum += lat;
RECURSIVE SumOf(_)
SumOf(s) == IF s = <<>> THEN 0 ELSE s[1] + SumOf(Tail(s))

\* A double that is the quotient of two integers, kept as the exact fraction.
Ratio(num, den) == [num |-> num, den |-> den]

\* variance = (sum of (lat - avg)^2) / size, with avg = sum / size:
\* (sum of (size * lat - sum)^2) / size^3.
RECURSIVE SumSqDev(_, _, _)
SumSqDev(s, size, sum) ==
    IF s = <<>> THEN 0
    ELSE (size * s[1] - sum) * (size * s[1] - sum) + SumSqDev(Tail(s), size, sum)

\* Faulty variant: the mean is the integer quotient of sum by size.
calculate_stats_IntegerMean(s) ==
    IF s = <<>>
    THEN [min_ns |-> 0, max_ns |-> 0, avg_ns |-> Ratio(0, 1),
          variance |-> Ratio(0, 1)]
    ELSE [min_ns   |-> MinOf(s),
          max_ns   |-> MaxOf(s),
          avg_ns   |-> Ratio(SumOf(s) \div Len(s), 1),
          variance |-> Ratio(SumSqDev(s, Len(s), SumOf(s)),
                             Len(s) * Len(s) * Len(s))]

ZeroStats ==
    [min_ns |-> 0, max_ns |-> 0, avg_ns |-> Ratio(0, 1), variance |-> Ratio(0, 1)]

\* calculate_stats: stddev_ns is the square root of the field variance.
calculate_stats(s) ==
    IF s = <<>> THEN ZeroStats
    ELSE [min_ns   |-> MinOf(s),
          max_ns   |-> MaxOf(s),
          avg_ns   |-> Ratio(SumOf(s), Len(s)),
          variance |-> Ratio(SumSqDev(s, Len(s), SumOf(s)),
                             Len(s) * Len(s) * Len(s))]

\* display_results: max_us = max_ns / 1000.0 against 50, 100 and 200.
QualityOf(max_ns) ==
    IF max_ns < 50000 THEN "excellent"
    ELSE IF max_ns < 100000 THEN "very_good"
    ELSE IF max_ns < 200000 THEN "acceptable"
    ELSE "check_config"

\* uint64_t bin_width = range / num_bins; if (bin_width == 0) bin_width = 1;
BinWidth(min_lat, max_lat, num_bins) ==
    LET w == (max_lat - min_lat) \div num_bins
    IN  IF w = 0 THEN 1 ELSE w

\* int bin_index = (lat - min_lat) / bin_width, clamped to [0, num_bins - 1]
BinIndex(lat, min_lat, bin_width, num_bins) ==
    LET raw  == (lat - min_lat) \div bin_width
        high == IF raw >= num_bins THEN num_bins - 1 ELSE raw
    IN  IF high < 0 THEN 0 ELSE high

\* Faulty variant: a sample whose index is past the last bin is not counted.
FillBins_DropsOverflow(s, bins, min_lat, bin_width, num_bins) ==
    [b \in DOMAIN bins |->
        bins[b] + Cardinality({k \in 1..Len(s) :
                     (s[k] - min_lat) \div bin_width = b})]

\* std::vector<int> bins(num_bins, 0); for (lat : latencies) bins[bin_index]++;
RECURSIVE FillBins(_, _, _, _, _)
FillBins(s, bins, min_lat, bin_width, num_bins) ==
    IF s = <<>> THEN bins
    ELSE FillBins(Tail(s),
                  [bins EXCEPT ![BinIndex(s[1], min_lat, bin_width, num_bins)] = @ + 1],
                  min_lat, bin_width, num_bins)

NoHist ==
    [kind |-> "none", value_us |-> 0, bin_width |-> 0, bins |-> <<>>,
     rows |-> <<>>]

\* Faulty variant: no test for identical samples; the bins are always built.
print_histogram_AlwaysBins(s, num_bins) ==
    IF s = <<>> THEN [NoHist EXCEPT !.kind = "empty"]
    ELSE
      LET min_lat == MinOf(s)
          bin_width == BinWidth(min_lat, MaxOf(s), num_bins)
          bins == [b \in 0..(num_bins - 1) |->
                     Cardinality({k \in 1..Len(s) :
                         BinIndex(s[k], min_lat, bin_width, num_bins) = b})]
      IN  [NoHist EXCEPT !.kind = "bins", !.bin_width = bin_width,
                         !.bins = bins]

\* print_histogram(latencies, num_bins): "empty" and "identical" print one
\* line; otherwise bins[b] counts the samples of index b and one row is
\* printed per bin: the range in microseconds and the count (the bar drawn
\* beside them is console rendering and is left out).
print_histogram(s, num_bins) ==
    IF s = <<>> THEN [NoHist EXCEPT !.kind = "empty"]
    ELSE
      LET min_lat == MinOf(s)
          max_lat == MaxOf(s)
      IN  IF min_lat = max_lat
          THEN [NoHist EXCEPT !.kind = "identical",
                              !.value_us = min_lat \div 1000]
          ELSE
            LET bin_width == BinWidth(min_lat, max_lat, num_bins)
                bins == FillBins(s, [b \in 0..(num_bins - 1) |-> 0], min_lat,
                                 bin_width, num_bins)
            IN  [kind      |-> "bins",
                 value_us  |-> 0,
                 bin_width |-> bin_width,
                 bins      |-> bins,
                 rows      |-> [b \in 0..(num_bins - 1) |->
                     [range_start_us |-> (min_lat + b * bin_width) \div 1000,
                      range_end_us   |-> (min_lat + (b + 1) * bin_width) \div 1000,
                      count          |-> bins[b]]]]

\* What has been computed from the samples: the statistics (mean and
\* variance as fractions), the grade of the maximum, the histogram and the
\* percentile.
NoReport ==
    [shown |-> FALSE, min_ns |-> 0, max_ns |-> 0, avg_ns |-> Ratio(0, 1),
     variance |-> Ratio(0, 1), quality |-> "none", hist |-> NoHist,
     percentile_ns |-> 0]

-----------------------------------------------------------------------------
(* run_periodic_task *)

PeriodNs == PERIOD_US * 1000

\* Instants the first clock_gettime may return; two of them lie less than
\* MaxIter periods before a whole second, so that the carry happens.
StartInstants ==
    {Timespec(0, 0), Timespec(0, 998500000), Timespec(0, 999999999)}

\* How long after the scheduled instant the kernel may wake the thread (ns):
\* on time, a usual latency, and an overrun of more than two periods.
WakeDelays == {0, 50000, 2500000}

\* clock_nanosleep(CLOCK_MONOTONIC, TIMER_ABSTIME, &next_period, NULL): the
\* thread runs again at the target plus a delay, or at once when the target
\* is already past or the wait is interrupted (the return value is ignored).
\* The clock never goes back.
WakeInstants(c, target) ==
    {w \in {c} \cup {FromNs(TotalNs(target) + d) : d \in WakeDelays} :
        TotalNs(w) >= TotalNs(c)}

\* Faulty variant: the next wake is planned from the instant just read.
AdvancePeriod_FromNow(ts) == FromNs(TotalNs(clock) + params.period_us * 1000)

\* next_period.tv_nsec += PERIOD_US * 1000; one conditional carry.  The
\* period is the compile-time constant PERIOD_US, kept in params.period_us.
AdvancePeriod(ts) ==
    LET ns == ts.tv_nsec + params.period_us * 1000
    IN  IF ns >= NSEC_PER_SEC
        THEN Timespec(ts.tv_sec + 1, ns - NSEC_PER_SEC)
        ELSE Timespec(ts.tv_sec, ns)

\* latencies.reserve(); clock_gettime(CLOCK_MONOTONIC, &next_period)
RunInit ==
    /\ pc = "run_init"
    /\ \E start \in StartInstants :
         /\ clock' = start
         /\ next_period' = start
         /\ t0' = start
    /\ latencies' = <<>>
    /\ i' = 0
    /\ out' = Append(out, "run_banner")
    /\ pc' = "loop"
    /\ UNCHANGED <<argv, ctx, trace, cfgResult, exitStatus, n, now, schedLog,
                   nowLog, params, report>>

\* for (...; i < NUM_ITERATIONS; ...) { clock_nanosleep(...)
ClockNanosleep ==
    /\ pc = "loop"
    /\ i < n
    /\ schedLog' = Append(schedLog, next_period)
    /\ clock' \in WakeInstants(clock, next_period)
    /\ pc' = "measure"
    /\ UNCHANGED <<argv, ctx, trace, out, cfgResult, exitStatus, n, i,
                   next_period, now, latencies, t0, nowLog, params, report>>

\* Faulty variant: the sample is put in front of the earlier ones.
Measure_PushFront ==
    /\ pc = "measure"
    /\ now' = clock
    /\ nowLog' = Append(nowLog, clock)
    /\ latencies' = <<timespec_diff_ns(next_period, clock)>> \o latencies
    /\ next_period' = AdvancePeriod(next_period)
    /\ i' = i + 1
    /\ pc' = "loop"
    /\ UNCHANGED <<argv, ctx, trace, out, cfgResult, exitStatus, n, clock, t0,
                   schedLog, params, report>>

\* Faulty variant: the cycle unlocks the memory after taking its sample.
Measure_Unlocks ==
    /\ pc = "measure"
    /\ now' = clock
    /\ nowLog' = Append(nowLog, clock)
    /\ latencies' = Append(latencies, timespec_diff_ns(next_period, clock))
    /\ next_period' = AdvancePeriod(next_period)
    /\ i' = i + 1
    /\ pc' = "loop"
    /\ ctx' = munlockall(ctx)
    /\ trace' = Append(trace, Call("munlockall", TRUE))
    /\ UNCHANGED <<argv, out, cfgResult, exitStatus, n, clock, t0, schedLog,
                   params, report>>

\* clock_gettime(&now); push_back(timespec_diff_ns(next_period, now));
\* advance next_period; ++i }
Measure ==
    /\ pc = "measure"
    /\ now' = clock
    /\ nowLog' = Append(nowLog, clock)
    /\ latencies' = Append(latencies, timespec_diff_ns(next_period, clock))
    /\ next_period' = AdvancePeriod(next_period)
    /\ i' = i + 1
    /\ pc' = "loop"
    /\ UNCHANGED <<argv, ctx, trace, out, cfgResult, exitStatus, n, clock, t0,
                   schedLog, params, report>>

\* the loop condition fails: return latencies
LoopDone ==
    /\ pc = "loop"
    /\ ~(i < n)
    /\ out' = Append(out, "task_done")
    /\ pc' = "display"
    /\ UNCHANGED <<argv, ctx, trace, cfgResult, exitStatus>>
    /\ UNCHANGED runVars

\* display_results(latencies): nothing but an error line for no sample;
\* else the statistics (the maximum is graded), then the histogram with its
\* default number of bins.  The mean and the standard deviation are only
\* printed and are not kept in the report of a run.
DisplayResults ==
    /\ pc = "display"
    /\ out' = Append(out, IF latencies = <<>> THEN "err_no_data" ELSE "report")
    /\ report' = IF latencies = <<>>
                 THEN NoReport
                 ELSE [NoReport EXCEPT
                          !.shown   = TRUE,
                          !.min_ns  = MinOf(latencies),
                          !.max_ns  = MaxOf(latencies),
                          !.quality = QualityOf(MaxOf(latencies)),
                          !.hist    = print_histogram(latencies, NUM_BINS)]
    /\ pc' = "teardown"
    /\ UNCHANGED <<argv, ctx, trace, cfgResult, exitStatus, n, i, next_period,
                   now, latencies, clock, t0, schedLog, nowLog, params>>

-----------------------------------------------------------------------------
(* main: clean-up and exit *)

\* Faulty variant: the scheduling policy is not set back.
Release_KeepsFifo(c) == munlockall(c)

\* Faulty variant: the memory is left locked.
Release_NoUnlock(c) == sched_setscheduler(c, "SCHED_OTHER", 0)

\* param.sched_priority = 0; sched_setscheduler(0, SCHED_OTHER, &param);
\* munlockall();  Both calls succeed for a process that was allowed to
\* configure itself; their return values are not looked at.
Release(c) == munlockall(sched_setscheduler(c, "SCHED_OTHER", 0))

ReleaseCalls ==
    <<Call("sched_setscheduler_OTHER", TRUE), Call("munlockall", TRUE)>>

\* Faulty variant: main returns without the clean-up.
Teardown_Skipped ==
    /\ pc = "teardown"
    /\ out' = Append(out, "end_banner")
    /\ exitStatus' = 0
    /\ pc' = "exit"
    /\ UNCHANGED <<argv, ctx, trace, cfgResult>>
    /\ UNCHANGED runVars

Teardown ==
    /\ pc = "teardown"
    /\ ctx' = Release(ctx)
    /\ trace' = trace \o ReleaseCalls
    /\ out' = Append(out, "end_banner")
    /\ exitStatus' = 0
    /\ pc' = "exit"
    /\ UNCHANGED <<argv, cfgResult>>
    /\ UNCHANGED runVars

-----------------------------------------------------------------------------
(* The program *)

Iterations == 0..MaxIter

InitRun ==
    /\ i = 0
    /\ next_period = Timespec(0, 0)
    /\ now = Timespec(0, 0)
    /\ latencies = <<>>
    /\ clock = Timespec(0, 0)
    /\ t0 = Timespec(0, 0)
    /\ schedLog = <<>>
    /\ nowLog = <<>>
    /\ params = DefaultParams
    /\ report = NoReport

Init ==
    /\ pc = "parse"
    /\ argv \in ArgLists
    /\ ctx = DefaultCtx
    /\ trace = <<>>
    /\ out = <<>>
    /\ cfgResult = "pending"
    /\ exitStatus = -1
    /\ n \in Iterations
    /\ InitRun

Next ==
    \/ ParseArgs
    \/ MlockAll
    \/ SchedSetFifo
    \/ SetAffinity
    \/ ConfigReturned
    \/ RunInit
    \/ ClockNanosleep
    \/ Measure
    \/ LoopDone
    \/ DisplayResults
    \/ Teardown

Spec == Init /\ [][Next]_vars

TypeOK ==
    /\ pc \in {"parse", "mlock", "sched", "affinity", "cfg_returned", "run_init",
               "loop", "measure", "display", "teardown", "exit", "released"}
    /\ argv \in ArgLists
    /\ ctx.locked \in BOOLEAN
    /\ ctx.policy \in {"SCHED_OTHER", "SCHED_FIFO"}
    /\ ctx.priority \in 0..PRIO_MAX
    /\ ctx.affinity \subseteq AllCpus
    /\ cfgResult \in {"pending", "true", "false"}
    /\ exitStatus \in {-1, 0, 1}
    /\ n \in Nat /\ i \in 0..n
    /\ Len(latencies) = i
    /\ next_period.tv_nsec \in 0..(NSEC_PER_SEC - 1)
    /\ params = DefaultParams
    /\ report.shown \in BOOLEAN
    /\ report.hist.kind \in {"none", "identical", "bins"}

-----------------------------------------------------------------------------
(* History predicates *)

MlockFailed == \E k \in 1..Len(trace) : trace[k] = Call("mlockall", FALSE)

MlockSucceeded == \E k \in 1..Len(trace) : trace[k] = Call("mlockall", TRUE)

SchedFailed ==
    \E k \in 1..Len(trace) : trace[k] = Call("sched_setscheduler_FIFO", FALSE)

SchedSucceeded ==
    \E k \in 1..Len(trace) : trace[k] = Call("sched_setscheduler_FIFO", TRUE)

AffinityFailed ==
    \E k \in 1..Len(trace) : trace[k] = Call("pthread_setaffinity_np", FALSE)

Printed(tag) == \E k \in 1..Len(out) : out[k] = tag

TeardownCount == CountCalls("sched_setscheduler_OTHER")

-----------------------------------------------------------------------------
(* Configuration and ordering: C1 .. C5 *)

\* C1: once mlockall has failed, configure_realtime has returned false and
\* neither sched_setscheduler(SCHED_FIFO) nor pthread_setaffinity_np is ever
\* called.
C1_MlockFailureStops ==
    MlockFailed =>
        /\ cfgResult = "false"
        /\ ~Called("sched_setscheduler_FIFO")
        /\ ~Called("pthread_setaffinity_np")
        /\ pc \in {"cfg_returned", "exit"}

C1_Witness == pc = "exit" /\ MlockFailed /\ exitStatus = 1

\* C2: once sched_setscheduler(SCHED_FIFO) has failed after a successful
\* mlockall, munlockall has been called and the memory is unlocked,
\* configure_realtime has returned false and pthread_setaffinity_np is never
\* called.
C2_SchedFailureUnlocks ==
    SchedFailed =>
        /\ MlockSucceeded
        /\ Called("munlockall")
        /\ ~ctx.locked
        /\ cfgResult = "false"
        /\ ~Called("pthread_setaffinity_np")
        /\ pc \in {"cfg_returned", "exit"}

C2_Witness == pc = "exit" /\ SchedFailed /\ MlockSucceeded /\ ~ctx.locked

\* C3: when mlockall and sched_setscheduler(SCHED_FIFO) succeeded,
\* configure_realtime returns true whether pthread_setaffinity_np succeeds or
\* fails; main never stops before the periodic run, and it exits with status
\* 0 after the run has been executed.
C3_AffinityNonFatal ==
    SchedSucceeded =>
        /\ MlockSucceeded
        /\ cfgResult # "false"
        /\ Called("pthread_setaffinity_np") => cfgResult = "true"
        /\ pc # "exit" => ENABLED Next
        /\ pc = "exit" =>
              /\ exitStatus = 0
              /\ Printed("task_done")
              /\ Len(latencies) = n
              /\ Len(schedLog) = n

C3_Witness ==
    /\ pc = "exit"
    /\ AffinityFailed
    /\ Printed("warn_affinity")
    /\ exitStatus = 0
    /\ n > 0
    /\ Len(latencies) = n

\* C4: no cycle of the periodic loop is performed unless configure_realtime
\* has returned true (after a fatal failure nothing is ever waited for or
\* measured), and the clean-up of main does not start before the loop has
\* collected all n samples.
C4_Ordering ==
    /\ (schedLog # <<>> \/ nowLog # <<>> \/ latencies # <<>>) =>
          cfgResult = "true" /\ MlockSucceeded /\ SchedSucceeded
    /\ cfgResult = "false" =>
          schedLog = <<>> /\ latencies = <<>> /\ pc \in {"cfg_returned", "exit"}
    /\ pc \in {"run_init", "loop", "measure", "display"} => TeardownCount = 0
    /\ (pc = "teardown" \/ TeardownCount > 0) =>
          Len(latencies) = n /\ Len(schedLog) = n /\ i = n

C4_Witness ==
    pc = "exit" /\ TeardownCount = 1 /\ n >= 2 /\ Len(latencies) = n

\* C5 as claimed: on every run in which configuration was attempted, also
\* when it failed at step 1 or step 2, the clean-up (SCHED_OTHER at priority
\* 0, then munlockall) has been executed exactly once when the program exits.
C5_TeardownOnEveryRun ==
    (pc = "exit" /\ Called("mlockall")) =>
        /\ TeardownCount = 1
        /\ Called("munlockall")

\* C5 as amended: the clean-up is executed exactly once before exit on the
\* runs whose configuration succeeded, and never more than once; after a
\* failure of step 1 no restoring call is made at all, and after a failure of
\* step 2 the only one is the munlockall of configure_realtime.
C5_TeardownOnSuccessOnly ==
    /\ TeardownCount <= 1
    /\ (pc = "exit" /\ cfgResult = "true") =>
          /\ TeardownCount = 1
          /\ CountCalls("munlockall") = 1
          /\ SubSeq(trace, Len(trace) - 1, Len(trace)) = ReleaseCalls
          /\ ctx.policy = "SCHED_OTHER" /\ ctx.priority = 0 /\ ~ctx.locked
    /\ (pc = "exit" /\ MlockFailed) =>
          trace = <<Call("mlockall", FALSE)>>
    /\ (pc = "exit" /\ SchedFailed) =>
          trace = <<Call("mlockall", TRUE),
                    Call("sched_setscheduler_FIFO", FALSE),
                    Call("munlockall", TRUE)>>

C5_Witness ==
    pc = "exit" /\ cfgResult = "true" /\ TeardownCount = 1 /\ n > 0

-----------------------------------------------------------------------------
(* Clean-up applied twice: C6 *)

\* The scheduling attributes a process can be started with (they are
\* inherited from the parent, e.g. under chrt or taskset); memory locks are
\* not inherited.
SchedSettings ==
    {[policy |-> "SCHED_OTHER", priority |-> 0]}
    \cup {[policy |-> "SCHED_FIFO", priority |-> q] : q \in PRIO_MIN..PRIO_MAX}

LaunchCtxs ==
    {[locked |-> FALSE, policy |-> s.policy, priority |-> s.priority,
      affinity |-> a] : s \in SchedSettings, a \in {AllCpus, {RT_CPU}}}

ReleasePoints == {"mlock", "sched", "affinity", "cfg_returned", "released"}

\* The clean-up block of main, run wherever the configuration has got to
\* (not started, memory locked only, failed, complete), at most twice.
ReleaseStep ==
    /\ pc \in ReleasePoints
    /\ TeardownCount < 2
    /\ ctx' = Release(ctx)
    /\ trace' = trace \o ReleaseCalls
    /\ pc' = "released"
    /\ UNCHANGED <<argv, out, cfgResult, exitStatus>>
    /\ UNCHANGED runVars

InitRelease ==
    /\ pc = "mlock"
    /\ argv = <<>>
    /\ ctx \in LaunchCtxs
    /\ trace = <<>>
    /\ out = <<>>
    /\ cfgResult = "pending"
    /\ exitStatus = -1
    /\ n = 0
    /\ InitRun

NextRelease ==
    \/ MlockAll
    \/ SchedSetFifo
    \/ SetAffinity
    \/ ReleaseStep

SpecRelease == InitRelease /\ [][NextRelease]_vars

ErrorsPrinted ==
    Cardinality({k \in 1..Len(out) :
        out[k] \in {"err_mlockall", "err_sched_setscheduler", "config_failed"}})

FatalCallsFailed ==
    Cardinality({k \in 1..Len(trace) :
        ~trace[k].ok /\ trace[k].call # "pthread_setaffinity_np"})

IsReleased(c) ==
    c.policy = "SCHED_OTHER" /\ c.priority = 0 /\ ~c.locked

\* C6: from every context (never configured, partially configured,
\* configured) the clean-up applied twice gives what it gives applied once:
\* SCHED_OTHER at priority 0 with the memory unlocked; the second run changes
\* nothing and neither run reports an error or ends the program.
C6_ReleaseIdempotent ==
    /\ IsReleased(Release(ctx))
    /\ Release(Release(ctx)) = Release(ctx)
    /\ pc = "released" =>
          /\ IsReleased(ctx)
          /\ Release(ctx) = ctx
          /\ exitStatus = -1
          /\ ErrorsPrinted = FatalCallsFailed

C6_Witness ==
    /\ pc = "released"
    /\ TeardownCount = 2
    /\ MlockSucceeded
    /\ SchedSucceeded
    /\ IsReleased(ctx)

-----------------------------------------------------------------------------
(* Exit status and arguments: C7 *)

HelpDisplayed == out = <<"usage">>

RunCompleted == Printed("end_banner")

\* C7 as claimed: the exit status is 0 exactly when the run completed or the
\* help was displayed, it is 1 after a fatal configuration failure, and every
\* argument list holding an unrecognised argument at any position (also
\* after a help flag) prints the usage and exits with a non-zero status.
C7_AnyUnknownArgFails ==
    pc = "exit" =>
        /\ exitStatus = 0 <=> (RunCompleted \/ HelpDisplayed)
        /\ cfgResult = "false" => exitStatus = 1
        /\ (\E k \in 1..Len(argv) : argv[k] \notin HelpFlags) =>
              Printed("usage") /\ exitStatus # 0

\* C7 as amended: the exit status is 0 exactly when the run completed or the
\* help was displayed, and 1 after a fatal configuration failure; only the
\* first argument is looked at: when it is unrecognised the program prints
\* the usage and exits with status 1, when it is a help flag the program
\* prints the usage and exits with status 0 whatever follows it.
C7_FirstArgDecides ==
    pc = "exit" =>
        /\ exitStatus \in {0, 1}
        /\ exitStatus = 0 <=> (RunCompleted \/ HelpDisplayed)
        /\ cfgResult = "false" => exitStatus = 1
        /\ (argv # <<>> /\ argv[1] \notin HelpFlags) =>
              out = <<"unknown_option", "usage">> /\ exitStatus = 1
        /\ (argv # <<>> /\ argv[1] \in HelpFlags) =>
              HelpDisplayed /\ exitStatus = 0
        /\ argv # <<>> => trace = <<>>

C7_Witness ==
    /\ pc = "exit"
    /\ Len(argv) = 2
    /\ argv[1] \notin HelpFlags
    /\ argv[2] \in HelpFlags
    /\ exitStatus = 1

-----------------------------------------------------------------------------
(* The sample sequence and the schedule: C8, C9 *)

\* end - start in nanoseconds, computed on the two fields separately, for
\* an end that is not before start.
After(end, start) ==
    \/ end.tv_sec > start.tv_sec
    \/ end.tv_sec = start.tv_sec /\ end.tv_nsec > start.tv_nsec

Elapsed(start, end) ==
    IF After(end, start)
    THEN (end.tv_sec - start.tv_sec) * NSEC_PER_SEC
            + (end.tv_nsec - start.tv_nsec)
    ELSE 0

SamplesInOrder ==
    /\ Len(latencies) = Len(nowLog)
    /\ \A k \in 1..Len(latencies) :
          latencies[k] = Elapsed(schedLog[k], nowLog[k])

SamplesComplete ==
    (pc \in {"display", "teardown", "exit"} /\ cfgResult = "true") =>
        /\ Len(latencies) = n
        /\ Len(schedLog) = n
        /\ n = 0 => latencies = <<>> /\ schedLog = <<>>

AppendOnly ==
    \/ latencies' = latencies
    \/ /\ Len(latencies') = Len(latencies) + 1
       /\ SubSeq(latencies', 1, Len(latencies)) = latencies

\* C8: for every iteration count n >= 0 run_periodic_task returns exactly n
\* samples, the k-th being the latency measured in the k-th cycle; during
\* the run the sequence only grows by appending; for n = 0 the result is
\* empty and clock_nanosleep is never called.
C8_SampleSequence ==
    /\ [](SamplesInOrder /\ SamplesComplete)
    /\ [][AppendOnly]_vars

C8_Witness ==
    /\ pc = "display"
    /\ n >= 3
    /\ Len(latencies) = n
    /\ latencies[1] > latencies[2]
    /\ latencies[2] > latencies[3]

\* C9: the instant handed to the k-th wait (k counted from 0) is the first
\* clock reading plus exactly k periods, whatever instants were read after
\* the earlier wakes; so is the instant planned for the next wait.
C9_DriftFree ==
    /\ \A k \in 1..Len(schedLog) :
          /\ schedLog[k] = FromNs(TotalNs(t0) + (k - 1) * PeriodNs)
          /\ schedLog[k].tv_nsec \in 0..(NSEC_PER_SEC - 1)
    /\ pc \in {"loop", "measure", "display", "teardown"} =>
          next_period = FromNs(TotalNs(t0) + i * PeriodNs)

C9_Witness ==
    /\ Len(schedLog) >= 3
    /\ Len(latencies) >= 2
    /\ latencies[1] > PeriodNs
    /\ latencies[2] > 0
    /\ schedLog[1].tv_sec = 0
    /\ schedLog[3].tv_sec = 1

-----------------------------------------------------------------------------
(* timespec_diff_ns on its own: C10 *)

NsecSamples == {0, 1, 1000, 500000000, 999999999}

Timestamps == {Timespec(s, ns) : s \in 0..1, ns \in NsecSamples}

\* One cycle whose scheduled instant and clock reading are any two
\* timestamps, the reading possibly before the scheduled instant.
InitDiff ==
    /\ pc = "measure"
    /\ argv = <<>>
    /\ ctx = [DefaultCtx EXCEPT !.locked = TRUE, !.policy = "SCHED_FIFO",
                                !.priority = RT_PRIORITY]
    /\ trace = <<Call("mlockall", TRUE), Call("sched_setscheduler_FIFO", TRUE),
                 Call("pthread_setaffinity_np", FALSE)>>
    /\ out = <<"banner", "warn_affinity", "run_banner">>
    /\ cfgResult = "true"
    /\ exitStatus = -1
    /\ n = 1
    /\ i = 0
    /\ next_period \in Timestamps
    /\ clock \in Timestamps
    /\ now = Timespec(0, 0)
    /\ latencies = <<>>
    /\ t0 = next_period
    /\ schedLog = <<next_period>>
    /\ nowLog = <<>>
    /\ params = DefaultParams
    /\ report = NoReport

NextDiff ==
    \/ Measure
    \/ LoopDone

SpecDiff == InitDiff /\ [][NextDiff]_vars

\* C10: for timestamps whose nanosecond parts are in [0, 10^9),
\* timespec_diff_ns(start, end) is end - start in nanoseconds when end is
\* strictly after start and 0 otherwise; the result is never negative nor
\* larger than the end instant (no wrapped value).
C10_DiffSaturates ==
    \A k \in 1..Len(latencies) :
        LET start == schedLog[k]
            end   == nowLog[k]
        IN  /\ After(end, start) =>
                  /\ latencies[k] > 0
                  /\ TotalNs(start) + latencies[k] = TotalNs(end)
            /\ ~After(end, start) => latencies[k] = 0
            /\ latencies[k] >= 0
            /\ latencies[k] <= TotalNs(end)

C10_Witness ==
    /\ Len(latencies) = 1
    /\ After(schedLog[1], nowLog[1])
    /\ schedLog[1].tv_nsec < nowLog[1].tv_nsec
    /\ latencies[1] = 0

-----------------------------------------------------------------------------
(* timespec_add_us applied to any timestamp and any period *)

\* Periods in microseconds: none, the shortest, the configured one, around
\* one second, and several seconds.
PeriodSamples == {0, 1, 1000, 999999, 1000000, 1000001, 2500000, 5000000}

\* while (ts.tv_nsec >= 1000000000) { ts.tv_sec++; ts.tv_nsec -= 1000000000; }
\* tv_nsec is a 64-bit long here; its value is held as whole microseconds
\* plus a remainder ns < 1000, so tv_nsec >= 10^9 exactly when us >= 10^6.
RECURSIVE CarrySeconds(_, _, _)
CarrySeconds(sec, us, ns) ==
    IF us >= NSEC_PER_SEC \div 1000
    THEN CarrySeconds(sec + 1, us - NSEC_PER_SEC \div 1000, ns)
    ELSE Timespec(sec, us * 1000 + ns)

\* Faulty variant: the nanoseconds are reduced but tv_sec is never incremented.
timespec_add_us_NoSecCarry(ts, us) ==
    [CarrySeconds(ts.tv_sec, ts.tv_nsec \div 1000 + us, ts.tv_nsec % 1000)
        EXCEPT !.tv_sec = ts.tv_sec]

\* ts.tv_nsec += static_cast<long>(us * 1000); then the carry loop.
timespec_add_us(ts, us) ==
    CarrySeconds(ts.tv_sec, ts.tv_nsec \div 1000 + us, ts.tv_nsec % 1000)

InitAddUs ==
    /\ pc = "add_us"
    /\ argv = <<>>
    /\ ctx = DefaultCtx
    /\ trace = <<>>
    /\ out = <<>>
    /\ cfgResult = "pending"
    /\ exitStatus = -1
    /\ n = 0
    /\ i = 0
    /\ next_period \in Timestamps
    /\ clock = Timespec(0, 0)
    /\ now = Timespec(0, 0)
    /\ latencies = <<>>
    /\ t0 = next_period
    /\ schedLog = <<>>
    /\ nowLog = <<>>
    /\ \E us \in PeriodSamples : params = [DefaultParams EXCEPT !.period_us = us]
    /\ report = NoReport

\* timespec_add_us(next_period, period_us)
AddUs ==
    /\ pc = "add_us"
    /\ next_period' = timespec_add_us(next_period, params.period_us)
    /\ pc' = "added"
    /\ UNCHANGED <<argv, ctx, trace, out, cfgResult, exitStatus, n, i, now,
                   latencies, clock, t0, schedLog, nowLog, params, report>>

NextAddUs == AddUs

SpecAddUs == InitAddUs /\ [][NextAddUs]_vars

\* The whole microseconds of an instant; with tv_nsec % 1000 it determines
\* tv_sec * 10^9 + tv_nsec.
WholeUs(ts) == ts.tv_sec * (NSEC_PER_SEC \div 1000) + ts.tv_nsec \div 1000

\* C11: for every timestamp with nanosecond part in [0, 10^9) and every
\* period, several seconds included, timespec_add_us leaves the nanosecond
\* part in [0, 10^9) and the instant tv_sec * 10^9 + tv_nsec is the original
\* instant plus the period exactly (equal whole microseconds, equal
\* remainder below one microsecond).
C11_AddUsExact ==
    pc = "added" =>
        /\ next_period.tv_nsec >= 0
        /\ next_period.tv_nsec < NSEC_PER_SEC
        /\ WholeUs(next_period) = WholeUs(t0) + params.period_us
        /\ next_period.tv_nsec % 1000 = t0.tv_nsec % 1000

\* A period of 2.5 s added one nanosecond before a second boundary carries
\* three seconds.
C11_Witness ==
    /\ pc = "added"
    /\ params.period_us = 2500000
    /\ t0.tv_nsec = 999999999
    /\ next_period = Timespec(t0.tv_sec + 3, 499999999)

-----------------------------------------------------------------------------
(* The complete run of NUM_ITERATIONS cycles under a clock that is always
   on time *)

\* clock_nanosleep returns exactly at the scheduled instant.
ClockNanosleepOnTime ==
    /\ pc = "loop"
    /\ i < n
    /\ next_period \in WakeInstants(clock, next_period)
    /\ schedLog' = Append(schedLog, next_period)
    /\ clock' = next_period
    /\ pc' = "measure"
    /\ UNCHANGED <<argv, ctx, trace, out, cfgResult, exitStatus, n, i,
                   next_period, now, latencies, t0, nowLog, params, report>>

\* main after a successful configure_realtime, with the shipped constants.
InitOnTime ==
    /\ pc = "run_init"
    /\ argv = <<>>
    /\ ctx = [DefaultCtx EXCEPT !.locked = TRUE, !.policy = "SCHED_FIFO",
                                !.priority = RT_PRIORITY, !.affinity = {RT_CPU}]
    /\ trace = <<Call("mlockall", TRUE), Call("sched_setscheduler_FIFO", TRUE),
                 Call("pthread_setaffinity_np", TRUE)>>
    /\ out = <<"banner", "ok_affinity">>
    /\ cfgResult = "true"
    /\ exitStatus = -1
    /\ n = NUM_ITERATIONS
    /\ InitRun

NextOnTime ==
    \/ RunInit
    \/ ClockNanosleepOnTime
    \/ Measure
    \/ LoopDone
    \/ DisplayResults

SpecOnTime == InitOnTime /\ [][NextOnTime]_vars

\* C12: with 1000 iterations, a period of 1000 microseconds and a clock that
\* reads the scheduled instant after every wait, the run yields 1000 samples
\* that are all 0, the reported maximum is 0, and the histogram reports that
\* all latencies are identical and builds no bin.
C12_OnTimeRun ==
    report.shown =>
        /\ params.period_us = 1000
        /\ Len(latencies) = 1000
        /\ \A k \in 1..Len(latencies) : latencies[k] = 0
        /\ report.max_ns = 0
        /\ report.hist.kind = "identical"
        /\ report.hist.value_us = 0
        /\ report.hist.bins = <<>>
        /\ report.hist.rows = <<>>

\* A run that starts one nanosecond before a second boundary, so that the
\* carry happens in the first cycle, is displayed.
C12_Witness ==
    /\ report.shown
    /\ t0 = Timespec(0, 999999999)
    /\ Len(latencies) = NUM_ITERATIONS
    /\ next_period = Timespec(1, 999999999)
    /\ report.hist.kind = "identical"

-----------------------------------------------------------------------------
(* print_histogram applied to any sample set and any number of bins *)

MaxSamples == 3

MaxBins == 3

\* Latencies (ns) whose ranges are below, equal to, and not a multiple of the
\* number of bins.
HistSamples == {0, 1, 2, 5, 7, 1000}

SampleSets ==
    UNION {[1..len -> HistSamples] : len \in 0..MaxSamples}

InitHist ==
    /\ pc = "histogram"
    /\ argv = <<>>
    /\ ctx = DefaultCtx
    /\ trace = <<>>
    /\ out = <<>>
    /\ cfgResult = "pending"
    /\ exitStatus = -1
    /\ latencies \in SampleSets
    /\ n = Len(latencies)
    /\ i = n
    /\ next_period = Timespec(0, 0)
    /\ clock = Timespec(0, 0)
    /\ now = Timespec(0, 0)
    /\ t0 = Timespec(0, 0)
    /\ schedLog = <<>>
    /\ nowLog = <<>>
    /\ \E nb \in 1..MaxBins : params = [DefaultParams EXCEPT !.num_bins = nb]
    /\ report = NoReport

\* print_histogram(latencies, num_bins)
PrintHistogram ==
    /\ pc = "histogram"
    /\ report' = [report EXCEPT !.shown = TRUE,
                                !.hist = print_histogram(latencies, params.num_bins)]
    /\ pc' = "histogram_done"
    /\ UNCHANGED <<argv, ctx, trace, out, cfgResult, exitStatus, n, i,
                   next_period, now, latencies, clock, t0, schedLog, nowLog,
                   params>>

NextHist == PrintHistogram

SpecHist == InitHist /\ [][NextHist]_vars

\* The bin index as the specification words it:
\* clamp((sample - min) / max(1, floor((max - min) / bin_count)), 0, bin_count - 1)
ClampedIndex(sample) ==
    LET min_lat == MinOf(latencies)
        floor   == (MaxOf(latencies) - min_lat) \div params.num_bins
        width   == IF floor >= 1 THEN floor ELSE 1
        raw     == (sample - min_lat) \div width
    IN  IF raw < 0 THEN 0
        ELSE IF raw > params.num_bins - 1 THEN params.num_bins - 1
        ELSE raw

RECURSIVE SumBins(_, _)
SumBins(bins, upto) ==
    IF upto < 0 THEN 0 ELSE bins[upto] + SumBins(bins, upto - 1)

\* C13: for every sample set whose minimum differs from its maximum and
\* every bin count >= 1, the bins of print_histogram are indexed
\* 0..bin_count-1, every sample is counted in exactly the bin of its clamped
\* index (so in one bin, whose index is in range), and the bin counts add up
\* to the number of samples.
C13_BucketCoverage ==
    (report.shown /\ latencies # <<>> /\ MinOf(latencies) # MaxOf(latencies)) =>
        /\ report.hist.kind = "bins"
        /\ DOMAIN report.hist.bins = 0..(params.num_bins - 1)
        /\ \A k \in 1..Len(latencies) :
               ClampedIndex(latencies[k]) \in 0..(params.num_bins - 1)
        /\ \A b \in 0..(params.num_bins - 1) :
               report.hist.bins[b] =
                   Cardinality({k \in 1..Len(latencies) :
                                    ClampedIndex(latencies[k]) = b})
        /\ SumBins(report.hist.bins, params.num_bins - 1) = Len(latencies)

\* Three bins over 0..7: the width is 2, the sample 7 has raw index 3 and is
\* counted in the last bin together with 5.
C13_Witness ==
    /\ report.shown
    /\ params.num_bins = 3
    /\ latencies = <<0, 5, 7>>
    /\ report.hist.bin_width = 2
    /\ report.hist.bins[0] = 1
    /\ report.hist.bins[2] = 2

-----------------------------------------------------------------------------
(* calculate_stats applied to any sample set *)

\* The state around a call of one function of rt_utils.h on a sample set:
\* no argument, no real-time attribute changed, no cycle run.
NoRun ==
    /\ argv = <<>>
    /\ ctx = DefaultCtx
    /\ trace = <<>>
    /\ out = <<>>
    /\ cfgResult = "pending"
    /\ exitStatus = -1
    /\ next_period = Timespec(0, 0)
    /\ clock = Timespec(0, 0)
    /\ now = Timespec(0, 0)
    /\ t0 = Timespec(0, 0)
    /\ schedLog = <<>>
    /\ nowLog = <<>>
    /\ report = NoReport

StatSamples == {0, 100, 200, 300, 1000}

InitStats ==
    /\ pc = "stats"
    /\ NoRun
    /\ latencies \in UNION {[1..len -> StatSamples] : len \in 0..MaxSamples}
    /\ n = Len(latencies)
    /\ i = n
    /\ params = DefaultParams

\* LatencyStats stats = calculate_stats(latencies)
CalculateStats ==
    /\ pc = "stats"
    /\ LET stats == calculate_stats(latencies)
       IN  report' = [report EXCEPT !.shown = TRUE,
                                   !.min_ns = stats.min_ns,
                                   !.max_ns = stats.max_ns,
                                   !.avg_ns = stats.avg_ns,
                                   !.variance = stats.variance]
    /\ pc' = "stats_done"
    /\ UNCHANGED <<argv, ctx, trace, out, cfgResult, exitStatus, n, i,
                   next_period, now, latencies, clock, t0, schedLog, nowLog,
                   params>>

NextStats == CalculateStats

SpecStats == InitStats /\ [][NextStats]_vars

\* The sum of the first k samples.
RECURSIVE SumFirst(_)
SumFirst(k) == IF k = 0 THEN 0 ELSE SumFirst(k - 1) + latencies[k]

\* C14: for every non-empty sample set calculate_stats returns the smallest
\* sample as min, the largest as max and (sum of samples) / count as mean,
\* so that min <= mean <= max; for the empty set it returns min = 0,
\* max = 0, mean = 0 and stddev = 0 (a zero variance).
C14_StatsValues ==
    pc = "stats_done" =>
        /\ report.avg_ns.den > 0
        /\ report.variance.den > 0
        /\ IF latencies = <<>>
           THEN /\ report.min_ns = 0
                /\ report.max_ns = 0
                /\ report.avg_ns.num = 0
                /\ report.variance.num = 0
           ELSE /\ report.min_ns \in Range(latencies)
                /\ report.max_ns \in Range(latencies)
                /\ \A k \in 1..Len(latencies) :
                       /\ report.min_ns <= latencies[k]
                       /\ latencies[k] <= report.max_ns
                /\ report.avg_ns.num * Len(latencies)
                       = SumFirst(Len(latencies)) * report.avg_ns.den
                /\ report.min_ns * report.avg_ns.den <= report.avg_ns.num
                /\ report.avg_ns.num <= report.max_ns * report.avg_ns.den

\* [100, 200, 300]: min 100, max 300, mean 200, variance 20000 / 3.
C14_Witness ==
    /\ pc = "stats_done"
    /\ latencies = <<100, 200, 300>>
    /\ report.min_ns = 100
    /\ report.max_ns = 300
    /\ report.avg_ns.num = 200 * report.avg_ns.den
    /\ report.variance.num * 3 = 20000 * report.variance.den

-----------------------------------------------------------------------------
(* calculate_percentile: IEEE-754 double arithmetic and the sort *)

\* The significand of a double has 53 bits.
DBL_MANT_DIG == 53

\* A non-negative double below 2^15 is held exactly as a fixed-point number:
\* five limbs of 15 bits, most significant first, the first limb being the
\* integer part and the four others the 60 fraction bits.  Every double met
\* here (p / 100 for p >= 1, and its products) has its 53 significant bits
\* above 2^-60.

LimbBits == 15

Limbs == 5

LimbBase == 2 ^ LimbBits

\* static_cast<double>(k) of an integer below 2^15
FromInt(k) == [idx \in 1..Limbs |-> IF idx = 1 THEN k ELSE 0]

Bit(a, j) == (a[Limbs - j \div LimbBits] \div 2 ^ (j % LimbBits)) % 2

BitLen(a) ==
    LET ones == {j \in 0..(Limbs * LimbBits - 1) : Bit(a, j) = 1}
    IN  IF ones = {} THEN 0
        ELSE 1 + CHOOSE j \in ones : \A h \in ones : h <= j

RECURSIVE DivLimbs(_, _, _, _)
DivLimbs(a, d, idx, rem) ==
    IF idx > Limbs THEN [q |-> <<>>, r |-> rem]
    ELSE LET v    == rem * LimbBase + a[idx]
             rest == DivLimbs(a, d, idx + 1, v % d)
         IN  [q |-> <<v \div d>> \o rest.q, r |-> rest.r]

RECURSIVE MulLimbs(_, _, _, _)
MulLimbs(a, k, idx, carry) ==
    IF idx = 0 THEN <<>>
    ELSE LET v == a[idx] * k + carry
         IN  Append(MulLimbs(a, k, idx - 1, v \div LimbBase), v % LimbBase)

RECURSIVE AddCarry(_, _, _)
AddCarry(a, idx, add) ==
    IF idx = 0 THEN a
    ELSE LET v == a[idx] + add
         IN  IF v < LimbBase THEN [a EXCEPT ![idx] = v]
             ELSE AddCarry([a EXCEPT ![idx] = v - LimbBase], idx - 1, 1)

ClearLow(a, t) ==
    [idx \in 1..Limbs |->
        LET base == (Limbs - idx) * LimbBits
            c    == IF t <= base THEN 0
                    ELSE IF t >= base + LimbBits THEN LimbBits
                    ELSE t - base
        IN  (a[idx] \div 2 ^ c) * 2 ^ c]

\* Round to nearest, ties to even, to DBL_MANT_DIG significant bits; sticky
\* says that the exact value is above a by less than its last bit.
RoundToDouble(a, sticky) ==
    LET t == BitLen(a) - DBL_MANT_DIG
    IN  IF t <= 0 THEN a
        ELSE LET guard == Bit(a, t - 1)
                 rest  == sticky \/ \E j \in 0..(t - 2) : Bit(a, j) = 1
                 odd   == Bit(a, t) = 1
                 kept  == ClearLow(a, t)
             IN  IF guard = 1 /\ (rest \/ odd)
                 THEN AddCarry(kept, Limbs - t \div LimbBits, 2 ^ (t % LimbBits))
                 ELSE kept

\* p / d in double, p and d integers: percentile / 100.0
DoubleDiv(p, d) ==
    LET dv == DivLimbs(FromInt(p), d, 1, 0)
    IN  RoundToDouble(dv.q, dv.r # 0)

\* xd * static_cast<double>(k) in double
DoubleMul(xd, k) == RoundToDouble(MulLimbs(xd, k, Limbs, 0), FALSE)

\* static_cast<size_t>(xd): the integer part
TruncToSize(xd) == xd[1]

\* std::sort(begin, end): the ascending arrangement of the same elements.
\* Position k holds the value with fewer than k smaller elements and at least
\* k elements not larger.
SortAscending(s) ==
    LET below   == [v \in Range(s) |-> Cardinality({j \in 1..Len(s) : s[j] < v})]
        upto    == [v \in Range(s) |-> Cardinality({j \in 1..Len(s) : s[j] <= v})]
        ranked  == [k \in 1..Len(s) |->
                       CHOOSE v \in Range(s) : below[v] < k /\ k <= upto[v]]
    IN  SubSeq(ranked, 1, Len(s))

\* calculate_percentile(latencies, percentile): the value returned and the
\* vector as the call leaves it.
calculate_percentile(s, percentile) ==
    IF s = <<>> THEN [value |-> 0, sorted |-> s]
    ELSE LET sorted == SortAscending(s)
             index  == TruncToSize(DoubleMul(DoubleDiv(percentile, 100),
                                             Len(s) - 1))
         IN  [value |-> sorted[index + 1], sorted |-> sorted]

\* Sample counts: none, one, the four of the documented example, and 51.
SampleSizes == {0, 1, 4, 51}

Descending(len) == [k \in 1..len |-> (len - k) * 100]

PercentileInputs ==
    {Descending(len) : len \in SampleSizes}
        \cup {<<100, 200, 300, 400>>, <<300, 100, 300, 200>>}

\* Whole percentiles, each an exact double.
Percentiles == 0..100

InitPercentile ==
    /\ pc = "percentile"
    /\ NoRun
    /\ latencies \in PercentileInputs
    /\ n = Len(latencies)
    /\ i = n
    /\ \E p \in Percentiles :
           params = [DefaultParams EXCEPT !.percentile = p, !.samples = latencies]

\* report = calculate_percentile(latencies, percentile)
CalculatePercentile ==
    /\ pc = "percentile"
    /\ LET res == calculate_percentile(latencies, params.percentile)
       IN  /\ latencies' = res.sorted
           /\ report' = [report EXCEPT !.shown = TRUE,
                                       !.percentile_ns = res.value]
    /\ pc' = "percentile_done"
    /\ UNCHANGED <<argv, ctx, trace, out, cfgResult, exitStatus, n, i,
                   next_period, now, clock, t0, schedLog, nowLog, params>>

NextPercentile == CalculatePercentile

SpecPercentile == InitPercentile /\ [][NextPercentile]_vars

IsAscending(s) == \A k \in 1..(Len(s) - 1) : s[k] <= s[k + 1]

IsPermutation(s, t) ==
    /\ Len(s) = Len(t)
    /\ \A v \in Range(s) \cup Range(t) :
           Cardinality({k \in 1..Len(s) : s[k] = v})
               = Cardinality({k \in 1..Len(t) : t[k] = v})

\* floor((p / 100) * (count - 1)) in exact arithmetic
ExactRank(p, count) == (p * (count - 1)) \div 100

\* C15: for every non-empty sample set of size count and every p in
\* [0, 100], calculate_percentile returns the element at index
\* floor((p / 100) * (count - 1)) of the samples sorted ascending, and leaves
\* its input as an ascending-sorted permutation of the original samples.
C15_PercentileRank ==
    (pc = "percentile_done" /\ params.samples # <<>>) =>
        /\ IsAscending(latencies)
        /\ IsPermutation(latencies, params.samples)
        /\ report.percentile_ns
               = latencies[ExactRank(params.percentile, Len(latencies)) + 1]

-----------------------------------------------------------------------------
(* The periodic loop built with other periods *)

\* Values of PERIOD_US (microseconds): up to one second, and 1.1 s.
ConfiguredPeriods == {1, 1000, 500000, 1000000, 1100000}

\* main after a successful configure_realtime; one cycle is run.
InitPeriods ==
    /\ pc = "run_init"
    /\ argv = <<>>
    /\ ctx = [DefaultCtx EXCEPT !.locked = TRUE, !.policy = "SCHED_FIFO",
                                !.priority = RT_PRIORITY, !.affinity = {RT_CPU}]
    /\ trace = <<Call("mlockall", TRUE), Call("sched_setscheduler_FIFO", TRUE),
                 Call("pthread_setaffinity_np", TRUE)>>
    /\ out = <<"banner", "ok_affinity">>
    /\ cfgResult = "true"
    /\ exitStatus = -1
    /\ n = 1
    /\ i = 0
    /\ next_period = Timespec(0, 0)
    /\ now = Timespec(0, 0)
    /\ latencies = <<>>
    /\ clock = Timespec(0, 0)
    /\ t0 = Timespec(0, 0)
    /\ schedLog = <<>>
    /\ nowLog = <<>>
    /\ \E us \in ConfiguredPeriods :
           params = [DefaultParams EXCEPT !.period_us = us]
    /\ report = NoReport

NextPeriods ==
    \/ RunInit
    \/ ClockNanosleep
    \/ Measure
    \/ LoopDone
    \/ DisplayResults

SpecPeriods == InitPeriods /\ [][NextPeriods]_vars

\* C16: for every configured period, periods longer than one second
\* included, the scheduled wake instant kept by the loop of
\* run_periodic_task has its nanosecond part in [0, 10^9) after every
\* cycle's advance.
C16_WakeNsecNormalized ==
    /\ next_period.tv_nsec >= 0
    /\ next_period.tv_nsec < NSEC_PER_SEC

-----------------------------------------------------------------------------
(* The real-time attributes at exit, in the loop, and without a run *)

\* C17: on every exit path (help, unrecognized argument, memory-lock
\* failure, scheduling-policy failure, completed run), the restoring calls
\* succeeding, the process ends with its memory unlocked and the default
\* non-real-time policy; none ends with locked memory or SCHED_FIFO.
C17_ExitReleased ==
    pc = "exit" =>
        /\ ~ctx.locked
        /\ ctx.policy = "SCHED_OTHER"
        /\ ctx.priority = 0

\* A completed run: the samples were taken under SCHED_FIFO with locked
\* memory and the program has exited with status 0.
C17_Witness ==
    /\ pc = "exit"
    /\ exitStatus = 0
    /\ MlockSucceeded
    /\ SchedSucceeded
    /\ latencies # <<>>
    /\ ~ctx.locked
    /\ ctx.policy = "SCHED_OTHER"

InLoop == pc \in {"loop", "measure"}

\* C18: throughout the periodic loop the real-time context is the
\* configured one and does not change: memory locked, SCHED_FIFO at priority
\* 80, the CPU set as step 3 left it; the only system calls made so far are
\* the three of the configuration, so the loop has made no configuration or
\* teardown call.
C18_LoopContextConfigured ==
    InLoop =>
        /\ ctx.locked
        /\ ctx.policy = "SCHED_FIFO"
        /\ ctx.priority = 80
        /\ ctx.affinity = IF AffinityFailed THEN AllCpus ELSE {RT_CPU}
        /\ Len(trace) = 3
        /\ trace[1] = Call("mlockall", TRUE)
        /\ trace[2] = Call("sched_setscheduler_FIFO", TRUE)
        /\ trace[3].call = "pthread_setaffinity_np"

\* The loop is about to leave after its last sample.
C18_Witness ==
    /\ pc = "loop"
    /\ n > 1
    /\ i = n
    /\ Len(latencies) = n
    /\ ctx.locked
    /\ ctx.policy = "SCHED_FIFO"

\* C19: when the arguments lead to the help text or to the
\* unrecognized-argument error, the program exits without having changed any
\* real-time attribute: no system call of the configuration is made (no
\* memory lock, no policy change, no CPU set change) and no periodic cycle
\* is attempted.
C19_NoRunNoChange ==
    (argv # <<>> \/ Printed("usage")) =>
        /\ pc \in {"parse", "exit"}
        /\ ctx = DefaultCtx
        /\ trace = <<>>
        /\ schedLog = <<>>
        /\ nowLog = <<>>
        /\ latencies = <<>>
        /\ i = 0
        /\ ~Printed("banner")

\* An unknown option followed by a help flag: the error exit.
C19_Witness ==
    /\ pc = "exit"
    /\ argv = <<"--bogus", "-h">>
    /\ exitStatus = 1
    /\ out = <<"unknown_option", "usage">>
    /\ ctx = DefaultCtx

-----------------------------------------------------------------------------
(* The ranges print_histogram reports for its bins *)

\* C20: in print_histogram, for every sample set whose minimum differs from
\* its maximum, every sample counted in bin b lies inside the range reported
\* for that bin: min + b * bin_width <= sample <= min + (b + 1) * bin_width,
\* the last bin included.
C20_SamplesInsideBinRange ==
    (report.shown /\ report.hist.kind = "bins") =>
        \A k \in 1..Len(latencies) :
            LET min_lat   == MinOf(latencies)
                bin_width == report.hist.bin_width
                b == BinIndex(latencies[k], min_lat, bin_width, params.num_bins)
            IN  /\ min_lat + b * bin_width <= latencies[k]
                /\ latencies[k] <= min_lat + (b + 1) * bin_width

====
